---- MODULE Spec2Model ----
(***************************************************************************)
(* Model of the WaitHuman Rust client (src/src/client.rs):                 *)
(* client construction, ask / ask_free_text / ask_multiple_choice, the     *)
(* create request and the fixed-interval poll loop.                        *)
(*                                                                         *)
(* Time is a global clock in milliseconds.  It advances only while a call  *)
(* is suspended: by the round trip of a request, or by POLL_INTERVAL_MS    *)
(* during the sleep between two polls.  The server and the transport are   *)
(* external: every response they can give is a nondeterministic input.     *)
(***************************************************************************)
EXTENDS Integers, Sequences, FiniteSets, TLC

\* ------------------------------------------------------------------ bounds
MaxPolls == 3        \* GET requests one call may issue in the model
MaxTimeout == 4      \* largest timeout_seconds a caller passes
MaxRttSec == 1       \* longest round trip of one request, in seconds
MaxIndex == 2        \* largest index the server puts in selected_indexes

\* --------------------------------------------------------- program constants
\* Variant of POLL_INTERVAL_MS: ten times the interval.
POLL_INTERVAL_MS_Long == 3000 * 10
\* Variant of POLL_INTERVAL_MS: a tenth of the interval.
POLL_INTERVAL_MS_Short == 3000 \div 10
POLL_INTERVAL_MS == 3000
MsPerSec == 1000
DEFAULT_ENDPOINT ==
  <<"h","t","t","p","s",":","/","/","a","p","i",".",
    "w","a","i","t","h","u","m","a","n",".","c","o","m">>

\* ------------------------------------------------------------------ helpers
SeqsUpTo(S, n) == UNION {[1..k -> S] : k \in 0..n}

\* Option<T>: None carries a default of T so that every Option<T> has one shape
NoneOf(default) == [some |-> FALSE, v |-> default]
Some(x) == [some |-> TRUE, v |-> x]
NoU64 == NoneOf(0)
NoString == NoneOf(<<>>)
NoAskOptions == NoneOf([timeout_seconds |-> NoU64])

\* ------------------------------------------------------------- input spaces
\* Call slots.  Init decides which of them take part in a behaviour.
CallIds == {1, 2}
ApiKeys == {<<>>, <<"k">>, <<" ">>}
EndpointOverrides == {<<"h">>, <<"h", "/">>, <<"/", "/">>}
Configs == [api_key : ApiKeys, endpoint : {NoString} \cup {Some(e) : e \in EndpointOverrides}]

ChoiceLists == {<<>>, <<"yes">>, <<"yes", "no">>}
TimeoutValues == {0, MaxTimeout - 1, MaxTimeout}
AskOptionsValues ==
  {NoAskOptions, Some([timeout_seconds |-> NoU64])}
    \cup {Some([timeout_seconds |-> Some(t)]) : t \in TimeoutValues}
Rtts == {r * MsPerSec : r \in 0..MaxRttSec}

ConfirmationIds == {<<"A">>, <<"B">>}
Statuses == {200, 404, 503}

\* AnswerContent: tagged union FreeText{text} | Options{selected_indexes}
FreeTextContent(t) == [tag |-> "FreeText", text |-> t, selected_indexes |-> <<>>]
OptionsContent(ix) == [tag |-> "Options", text |-> "", selected_indexes |-> ix]
AnswerContents ==
  {FreeTextContent("hello")}
    \cup {OptionsContent(ix) : ix \in SeqsUpTo(0..MaxIndex, 2)}

\* ConfirmationAnswerWithDate: the answer plus an opaque timestamp
AnswerWithDate(c) == [answer |-> [answer_content |-> c], date |-> "d"]
NoContent == [tag |-> "None", text |-> "", selected_indexes |-> <<>>]
NoAnswer == [answer |-> [answer_content |-> NoContent], date |-> ""]

\* AnswerFormat: tagged union FreeText | Options{options, multiple}
FreeTextFormat == [tag |-> "FreeText", options |-> <<>>, multiple |-> FALSE]
OptionsFormat(opts) == [tag |-> "Options", options |-> opts, multiple |-> FALSE]

ConfirmationQuestion(fmt) ==
  [method |-> "push", subject |-> "s", body |-> NoString, answer_format |-> fmt]

\* ------------------------------------------------------------------- errors
NoResult ==
  [tag |-> "Pending", kind |-> "", status_text |-> "", msg |-> "",
   elapsed_ms |-> 0, index |-> 0, expected |-> "",
   actual |-> [variant |-> "", text |-> "", selected_indexes |-> <<>>],
   answer |-> NoAnswer, text |-> ""]

OkAnswer(a) == [NoResult EXCEPT !.tag = "Ok", !.kind = "Answer", !.answer = a]
OkString(s, a) == [NoResult EXCEPT !.tag = "Ok", !.kind = "String", !.text = s, !.answer = a]
Err(k) == [NoResult EXCEPT !.tag = "Err", !.kind = k]

Timeout(elapsed) == [Err("Timeout") EXCEPT !.elapsed_ms = elapsed]
NetworkError(cause) == [Err("NetworkError") EXCEPT !.msg = cause]
CreateFailed(st) == [Err("CreateFailed") EXCEPT !.status_text = st]
PollFailed(st) == [Err("PollFailed") EXCEPT !.status_text = st]
UnexpectedAnswerType(exp, act) ==
  [Err("UnexpectedAnswerType") EXCEPT !.expected = exp, !.actual = act]
InvalidSelectedIndex(i) == [Err("InvalidSelectedIndex") EXCEPT !.index = i]
InvalidResponse(m) == [Err("InvalidResponse") EXCEPT !.msg = m]

\* ---------------------------------------------------------------- transport
\* StatusCode::is_success: 200..299
IsSuccess(status) == status >= 200 /\ status <= 299

\* StatusCode's Display: the number and its canonical reason
StatusText(status) ==
  CASE status = 200 -> "200 OK"
    [] status = 404 -> "404 Not Found"
    [] status = 503 -> "503 Service Unavailable"
    [] OTHER -> "000"

\* What send().await and json().await can produce for one request.
\*   sent = FALSE      : the transport failed (reqwest::Error from send)
\*   decodable = FALSE : the body does not decode into the expected struct
Response(sent, status, decodable, id, ma) ==
  [sent |-> sent, status |-> status, decodable |-> decodable,
   confirmation_request_id |-> id, maybe_answer |-> ma]

NoBody == [some |-> FALSE, v |-> NoAnswer]

CreateResponses ==
  {Response(FALSE, 0, FALSE, <<>>, NoBody)}
    \cup {Response(TRUE, s, FALSE, <<>>, NoBody) : s \in Statuses}
    \cup {Response(TRUE, 200, TRUE, id, NoBody) : id \in ConfirmationIds}

GetResponses ==
  {Response(FALSE, 0, FALSE, <<>>, NoBody)}
    \cup {Response(TRUE, s, FALSE, <<>>, NoBody) : s \in Statuses}
    \cup {Response(TRUE, 200, TRUE, <<>>, NoBody)}
    \cup {Response(TRUE, 200, TRUE, <<>>, Some(AnswerWithDate(c))) : c \in AnswerContents}

\* --------------------------------------------------------------------- state
VARIABLES
  config,   \* the WaitHumanConfig handed to WaitHuman::new
  client,   \* the result of WaitHuman::new: the client or the error
  calls,    \* per ask call: its position, locals, requests issued and result
  now,      \* wall clock, ms
  sent      \* number of requests handed to the HTTP transport so far

vars == <<config, client, calls, now, sent>>

\* ------------------------------------------------------------- construction
\* Variant of StripTrailingSlash: the endpoint is stored as given.
StripTrailingSlash_Keep(endpoint) == endpoint

\* endpoint.ends_with('/') then endpoint.pop()
StripTrailingSlash(endpoint) ==
  IF Len(endpoint) > 0 /\ endpoint[Len(endpoint)] = "/"
    THEN SubSeq(endpoint, 1, Len(endpoint) - 1)
    ELSE endpoint

NoClient == [state |-> "unbuilt", err |-> NoResult, api_key |-> <<>>, endpoint |-> <<>>]

\* Variant of New: the api key is not checked.
New_NoKeyCheck(cfg) ==
  [NoClient EXCEPT !.state = "ok",
                   !.api_key = cfg.api_key,
                   !.endpoint = StripTrailingSlash(
                      IF cfg.endpoint.some THEN cfg.endpoint.v ELSE DEFAULT_ENDPOINT)]

\* WaitHuman::new
New(cfg) ==
  IF Len(cfg.api_key) = 0
    THEN [NoClient EXCEPT !.state = "err", !.err = InvalidResponse("api_key is mandatory")]
    ELSE [NoClient EXCEPT !.state = "ok",
                          !.api_key = cfg.api_key,
                          !.endpoint = StripTrailingSlash(
                             IF cfg.endpoint.some THEN cfg.endpoint.v ELSE DEFAULT_ENDPOINT)]

\* WaitHumanConfig::new(api_key), then WaitHuman::new
NewFromKey(api_key) == New([api_key |-> api_key, endpoint |-> NoString])

\* ----------------------------------------------------------------- requests
CreatePath == <<"/","c","o","n","f","i","r","m","a","t","i","o","n","s","/","c","r","e","a","t","e">>
GetPath == <<"/","c","o","n","f","i","r","m","a","t","i","o","n","s","/","g","e","t","/">>
ShortPollQuery == <<"?","l","o","n","g","_","p","o","l","l","=","f","a","l","s","e">>

\* format!("{}/confirmations/create", self.endpoint)
CreateUrl(endpoint) == endpoint \o CreatePath

\* Variant of PollUrl: the id is kept in a field shared by the calls of a
\* client, so a poll addresses the confirmation created last.
PollUrl_LastCreated(endpoint, confirmation_id) ==
  LET made == {c \in CallIds : calls[c].created.some}
      last == CHOOSE c \in made : \A d \in made : calls[c].created_at >= calls[d].created_at
  IN endpoint \o GetPath \o calls[last].created.v \o ShortPollQuery

\* Variant of PollUrl: the polls address one fixed confirmation.
PollUrl_FixedId(endpoint, confirmation_id) == endpoint \o GetPath \o <<"A">> \o ShortPollQuery

\* format!("{}/confirmations/get/{}?long_poll=false", self.endpoint, confirmation_id)
PollUrl(endpoint, confirmation_id) == endpoint \o GetPath \o confirmation_id \o ShortPollQuery

\* One entry of a call's trace: a request handed to the transport (POST, GET)
\* with the response it got (resp, status), or a sleep with its duration (ms).
PostEvent(url, auth, question) ==
  [op |-> "POST", url |-> url, auth |-> auth, question |-> question, ms |-> 0, resp |-> "pending", status |-> 0]
GetEvent(url, auth) ==
  [op |-> "GET", url |-> url, auth |-> auth, question |-> ConfirmationQuestion(FreeTextFormat),
   ms |-> 0, resp |-> "pending", status |-> 0]
SleepEvent(ms) ==
  [op |-> "SLEEP", url |-> <<>>, auth |-> <<>>, question |-> ConfirmationQuestion(FreeTextFormat),
   ms |-> ms, resp |-> "", status |-> 0]

\* How a response is seen by the code that awaits it.
ResponseClass(resp) ==
  IF ~resp.sent THEN "neterr"
  ELSE IF ~IsSuccess(resp.status) THEN "status"
  ELSE IF ~resp.decodable THEN "decode"
  ELSE IF resp.maybe_answer.some THEN "answer"
  ELSE "none"

\* Variant of CreateOutcome: only a 5xx status is taken as a failed create.
CreateOutcome_ServerErrorsOnly(resp) ==
  IF ~resp.sent THEN [ok |-> FALSE, id |-> <<>>, err |-> NetworkError("send")]
  ELSE IF resp.status >= 500
    THEN [ok |-> FALSE, id |-> <<>>, err |-> CreateFailed(StatusText(resp.status))]
  ELSE IF ~resp.decodable THEN [ok |-> FALSE, id |-> <<>>, err |-> NetworkError("decode")]
  ELSE [ok |-> TRUE, id |-> resp.confirmation_request_id, err |-> NoResult]

\* ------------------------------------------------------- create_confirmation
\* The value create_confirmation returns for a response: Ok(id) or the error.
\* A reqwest::Error from send() or from json() converts to NetworkError (#[from]).
CreateOutcome(resp) ==
  IF ~resp.sent THEN [ok |-> FALSE, id |-> <<>>, err |-> NetworkError("send")]
  ELSE IF ~IsSuccess(resp.status)
    THEN [ok |-> FALSE, id |-> <<>>, err |-> CreateFailed(StatusText(resp.status))]
  ELSE IF ~resp.decodable THEN [ok |-> FALSE, id |-> <<>>, err |-> NetworkError("decode")]
  ELSE [ok |-> TRUE, id |-> resp.confirmation_request_id, err |-> NoResult]

\* Variant of EffectiveTimeout: absent options default to a zero timeout.
EffectiveTimeout_DefaultZero(options) ==
  IF options.some THEN options.v.timeout_seconds ELSE Some(0)

\* Variant of TimedOut: the timeout is compared without converting seconds.
TimedOut_NoUnitConversion(elapsed_ms, timeout_seconds) ==
  timeout_seconds.some /\ elapsed_ms > timeout_seconds.v

\* Variant of PollOutcome: a non-success status is retried after the sleep.
PollOutcome_RetryOnStatus(resp) ==
  IF ~resp.sent THEN [next |-> "done", result |-> NetworkError("send")]
  ELSE IF ~IsSuccess(resp.status) THEN [next |-> "sleep", result |-> NoResult]
  ELSE IF ~resp.decodable THEN [next |-> "done", result |-> NetworkError("decode")]
  ELSE IF resp.maybe_answer.some
    THEN [next |-> "done", result |-> OkAnswer(resp.maybe_answer.v)]
  ELSE [next |-> "sleep", result |-> NoResult]

\* ----------------------------------------------------------- poll_for_answer
\* options.and_then(|o| o.timeout_seconds)
EffectiveTimeout(options) ==
  IF options.some THEN options.v.timeout_seconds ELSE NoU64

\* Variant of TimedOut: the timeout fires as soon as it is reached.
TimedOut_NonStrict(elapsed_ms, timeout_seconds) ==
  timeout_seconds.some /\ elapsed_ms >= timeout_seconds.v * MsPerSec

\* Variant of TimedOut: elapsed is read once, when the loop is entered.
TimedOut_StaleElapsed(elapsed_ms, timeout_seconds) ==
  timeout_seconds.some /\ 0 > timeout_seconds.v * MsPerSec

\* Variant of PollStart: the clock is started when the method is called.
PollStart_FromCall(begun_at, entered_at) == begun_at

\* let start = Instant::now(), on entry to poll_for_answer: begun_at is when the
\* public method was called, entered_at is when poll_for_answer is entered.
PollStart(begun_at, entered_at) == entered_at

\* if let Some(timeout) = timeout_seconds { if elapsed_seconds > timeout as f64 {..} }
TimedOut(elapsed_ms, timeout_seconds) ==
  timeout_seconds.some /\ elapsed_ms > timeout_seconds.v * MsPerSec

\* What one loop iteration does with the response of its GET:
\*   next = "done"  : poll_for_answer returns result
\*   next = "sleep" : sleep POLL_INTERVAL_MS, then the next iteration
PollOutcome(resp) ==
  IF ~resp.sent THEN [next |-> "done", result |-> NetworkError("send")]
  ELSE IF ~IsSuccess(resp.status)
    THEN [next |-> "done", result |-> PollFailed(StatusText(resp.status))]
  ELSE IF ~resp.decodable THEN [next |-> "done", result |-> NetworkError("decode")]
  ELSE IF resp.maybe_answer.some
    THEN [next |-> "done", result |-> OkAnswer(resp.maybe_answer.v)]
  ELSE [next |-> "sleep", result |-> NoResult]

\* ------------------------------------------------------ convenience wrappers
\* format!("{:?}", other): the variant and its fields
DebugFmt(content) ==
  [variant |-> content.tag, text |-> content.text, selected_indexes |-> content.selected_indexes]

\* Variant of NarrowFreeText: an Options answer is coerced to an empty text.
NarrowFreeText_Coerce(answer) ==
  OkString(answer.answer.answer_content.text, answer)

\* ask_free_text: the match on answer.answer.answer_content
NarrowFreeText(answer) ==
  LET content == answer.answer.answer_content IN
  IF content.tag = "FreeText"
    THEN OkString(content.text, answer)
    ELSE UnexpectedAnswerType("free_text", DebugFmt(content))

\* Variant of NarrowMultipleChoice: the last selected index is used.
NarrowMultipleChoice_LastIndex(choices_vec, answer) ==
  LET content == answer.answer.answer_content IN
  IF content.tag = "Options"
    THEN IF Len(content.selected_indexes) = 0
           THEN InvalidResponse("No selection received")
           ELSE LET index == content.selected_indexes[Len(content.selected_indexes)]
                IN IF index < Len(choices_vec)
                     THEN OkString(choices_vec[index + 1], answer)
                     ELSE InvalidSelectedIndex(index)
    ELSE UnexpectedAnswerType("options", DebugFmt(content))

\* ask_multiple_choice: the match on answer.answer.answer_content.
\* index is a u32 and `as usize` keeps its value; Vec::get is 0-based.
NarrowMultipleChoice(choices_vec, answer) ==
  LET content == answer.answer.answer_content IN
  IF content.tag = "Options"
    THEN IF Len(content.selected_indexes) = 0
           THEN InvalidResponse("No selection received")
           ELSE LET index == content.selected_indexes[1]
                    index_usize == index
                IN IF index_usize < Len(choices_vec)
                     THEN OkString(choices_vec[index_usize + 1], answer)
                     ELSE InvalidSelectedIndex(index)
    ELSE UnexpectedAnswerType("options", DebugFmt(content))

\* Variant of Finish: ask_free_text hands ask's answer on without the match.
Finish_FreeTextUnchecked(kind, choices_vec, askResult) ==
  IF askResult.tag = "Err" \/ kind = "ask" THEN askResult
  ELSE IF kind = "ask_free_text"
    THEN OkString(askResult.answer.answer.answer_content.text, askResult.answer)
  ELSE NarrowMultipleChoice(choices_vec, askResult.answer)

\* Variant of Finish: an index past the end is clamped to the last choice.
Finish_ClampIndex(kind, choices_vec, askResult) ==
  IF askResult.tag = "Err" \/ kind = "ask" THEN askResult
  ELSE IF kind = "ask_free_text" THEN NarrowFreeText(askResult.answer)
  ELSE LET content == askResult.answer.answer.answer_content IN
       IF content.tag = "Options" /\ Len(content.selected_indexes) > 0
            /\ Len(choices_vec) > 0 /\ content.selected_indexes[1] >= Len(choices_vec)
         THEN OkString(choices_vec[Len(choices_vec)], askResult.answer)
         ELSE NarrowMultipleChoice(choices_vec, askResult.answer)

\* What the public method returns once self.ask(..) has returned askResult:
\* ask returns it as it is; the wrappers propagate an error with `?` and
\* narrow an answer.
Finish(kind, choices_vec, askResult) ==
  IF askResult.tag = "Err" \/ kind = "ask" THEN askResult
  ELSE IF kind = "ask_free_text" THEN NarrowFreeText(askResult.answer)
  ELSE NarrowMultipleChoice(choices_vec, askResult.answer)

\* -------------------------------------------------------------------- calls
\* A call slot.  pc is the call's position:
\*   unused      the slot takes no part in this behaviour
\*   idle        the method has not been called yet
\*   create_wait suspended in create_confirmation, awaiting the POST
\*   loop        at the top of poll_for_answer's loop
\*   poll_wait   suspended on the GET of this iteration
\*   sleeping    suspended in sleep(POLL_INTERVAL_MS)
\*   done        the method has returned result
\*   cancelled   the caller dropped the future at a suspension point
\* received is the last maybe_answer decoded from a poll response.
\* History of the call, read by no action: created is the id the server gave
\* in its create response; begun_at, created_at and ended_at are the times at
\* which the method was called, the create response arrived and the method
\* returned.
NewCall(pc) ==
  [pc |-> pc, kind |-> "", question |-> ConfirmationQuestion(FreeTextFormat),
   choices_vec |-> <<>>, options |-> NoAskOptions, confirmation_id |-> <<>>,
   timeout_seconds |-> NoU64, start |-> 0, trace |-> <<>>, received |-> NoBody,
   result |-> NoResult,
   created |-> NoString, begun_at |-> 0, created_at |-> 0, ended_at |-> 0]

Gets(trace) == SelectSeq(trace, LAMBDA e : e.op = "GET")
Posts(trace) == SelectSeq(trace, LAMBDA e : e.op = "POST")
Sleeps(trace) == SelectSeq(trace, LAMBDA e : e.op = "SLEEP")

\* The response of the request in flight (the last entry of the trace): how the
\* code saw it, and its HTTP status (0 when the transport failed).
SetLastResp(trace, class, status) ==
  [trace EXCEPT ![Len(trace)].resp = class, ![Len(trace)].status = status]

Init ==
  /\ config \in Configs
  /\ client = NoClient
  /\ calls = [c \in CallIds |-> NewCall(IF c = 1 THEN "idle" ELSE "unused")]
  /\ now = 0
  /\ sent = 0

\* WaitHuman::new(config)
ConstructNew ==
  /\ client.state = "unbuilt"
  /\ client' = New(config)
  /\ UNCHANGED <<config, calls, now, sent>>

\* WaitHuman::new_from_key(api_key): the config it builds has no endpoint
ConstructFromKey ==
  /\ client.state = "unbuilt"
  /\ ~config.endpoint.some
  /\ client' = NewFromKey(config.api_key)
  /\ UNCHANGED <<config, calls, now, sent>>

\* The method runs up to its first suspension point: the question is built,
\* ask calls create_confirmation, which sends the POST and awaits it.
Begin(c, kind, question, choices_vec, options) ==
  /\ client.state = "ok"
  /\ calls[c].pc = "idle"
  /\ calls' = [calls EXCEPT ![c] =
       [@ EXCEPT !.pc = "create_wait", !.kind = kind, !.question = question,
                 !.choices_vec = choices_vec, !.options = options,
                 !.begun_at = now,
                 !.trace = <<PostEvent(CreateUrl(client.endpoint), client.api_key, question)>>]]
  /\ sent' = sent + 1
  /\ UNCHANGED <<config, client, now>>

\* WaitHuman::ask with a question of the caller's
Ask(c) ==
  \E fmt \in {FreeTextFormat, OptionsFormat(<<"yes", "no">>)}, options \in AskOptionsValues :
    Begin(c, "ask", ConfirmationQuestion(fmt), <<>>, options)

\* WaitHuman::ask_free_text
AskFreeText(c) ==
  \E options \in AskOptionsValues :
    Begin(c, "ask_free_text", ConfirmationQuestion(FreeTextFormat), <<>>, options)

\* WaitHuman::ask_multiple_choice: choices_vec is the snapshot of choices
AskMultipleChoice(c) ==
  \E choices \in ChoiceLists, options \in AskOptionsValues :
    LET choices_vec == choices IN
    Begin(c, "ask_multiple_choice", ConfirmationQuestion(OptionsFormat(choices_vec)),
          choices_vec, options)

\* The POST completes.  On Ok(id) ask computes timeout_seconds and enters
\* poll_for_answer, which takes start = Instant::now(); on Err the method returns.
CreateResponse(c) ==
  /\ calls[c].pc = "create_wait"
  /\ \E resp \in CreateResponses, rtt \in Rtts :
       LET out == CreateOutcome(resp) IN
       /\ now' = now + rtt
       /\ calls' = [calls EXCEPT ![c] =
            IF out.ok
              THEN [@ EXCEPT !.pc = "loop",
                             !.trace = SetLastResp(@, "ok", resp.status),
                             !.confirmation_id = out.id,
                             !.timeout_seconds = EffectiveTimeout(calls[c].options),
                             !.start = PollStart(calls[c].begun_at, now + rtt),
                             !.created = Some(resp.confirmation_request_id),
                             !.created_at = now + rtt]
              ELSE [@ EXCEPT !.pc = "done",
                             !.ended_at = now + rtt,
                             !.trace = SetLastResp(@, ResponseClass(resp), resp.status),
                             !.result = Finish(calls[c].kind, calls[c].choices_vec, out.err)]]
  /\ UNCHANGED <<config, client, sent>>

\* The top of one loop iteration: the timeout check, then the GET is sent.
LoopIteration(c) ==
  /\ calls[c].pc = "loop"
  /\ LET elapsed_ms == now - calls[c].start IN
     IF TimedOut(elapsed_ms, calls[c].timeout_seconds)
       THEN /\ calls' = [calls EXCEPT ![c] =
                 [@ EXCEPT !.pc = "done",
                           !.ended_at = now,
                           !.result = Finish(calls[c].kind, calls[c].choices_vec,
                                             Timeout(elapsed_ms))]]
            /\ sent' = sent
       ELSE /\ Len(Gets(calls[c].trace)) < MaxPolls
            /\ calls' = [calls EXCEPT ![c] =
                 [@ EXCEPT !.pc = "poll_wait",
                           !.trace = Append(@, GetEvent(
                              PollUrl(client.endpoint, calls[c].confirmation_id),
                              client.api_key))]]
            /\ sent' = sent + 1
  /\ UNCHANGED <<config, client, now>>

\* The GET completes: the method returns, or the call goes to sleep.
PollResponse(c) ==
  /\ calls[c].pc = "poll_wait"
  /\ \E resp \in GetResponses, rtt \in Rtts :
       LET out == PollOutcome(resp)
           class == ResponseClass(resp)
       IN
       /\ now' = now + rtt
       /\ calls' = [calls EXCEPT ![c] =
            IF out.next = "done"
              THEN [@ EXCEPT !.pc = "done",
                             !.ended_at = now + rtt,
                             !.trace = SetLastResp(@, class, resp.status),
                             !.received = IF class = "answer" THEN resp.maybe_answer ELSE @,
                             !.result = Finish(calls[c].kind, calls[c].choices_vec, out.result)]
              ELSE [@ EXCEPT !.pc = "sleeping",
                             !.received = IF class = "answer" THEN resp.maybe_answer ELSE @,
                             !.trace = Append(SetLastResp(@, class, resp.status),
                                              SleepEvent(POLL_INTERVAL_MS))]]
  /\ UNCHANGED <<config, client, sent>>

\* The sleep between two polls ends.
SleepDone(c) ==
  /\ calls[c].pc = "sleeping"
  /\ now' = now + calls[c].trace[Len(calls[c].trace)].ms
  /\ calls' = [calls EXCEPT ![c].pc = "loop"]
  /\ UNCHANGED <<config, client, sent>>

\* Variant of Cancel: a request is sent to withdraw the confirmation.
Cancel_WithCleanup(c) ==
  /\ calls[c].pc \in {"create_wait", "poll_wait", "sleeping"}
  /\ calls' = [calls EXCEPT ![c] =
       [@ EXCEPT !.pc = "cancelled",
                 !.trace = Append(@, [GetEvent(CreateUrl(client.endpoint), client.api_key)
                                        EXCEPT !.op = "DELETE"])]]
  /\ sent' = sent + 1
  /\ UNCHANGED <<config, client, now>>

\* The caller drops the future while the call is suspended (awaiting the POST,
\* awaiting a GET, or in the sleep).  Nothing runs on drop: the call just stops.
Cancel(c) ==
  /\ calls[c].pc \in {"create_wait", "poll_wait", "sleeping"}
  /\ calls' = [calls EXCEPT ![c].pc = "cancelled"]
  /\ UNCHANGED <<config, client, now, sent>>

Next ==
  \/ ConstructNew
  \/ ConstructFromKey
  \/ \E c \in CallIds : Ask(c)
  \/ \E c \in CallIds : AskFreeText(c)
  \/ \E c \in CallIds : AskMultipleChoice(c)
  \/ \E c \in CallIds : CreateResponse(c)
  \/ \E c \in CallIds : LoopIteration(c)
  \/ \E c \in CallIds : PollResponse(c)
  \/ \E c \in CallIds : SleepDone(c)
  \/ \E c \in CallIds : Cancel(c)

Spec == Init /\ [][Next]_vars

\* One client with the default endpoint, for the behaviours in which every
\* suspension of a call ends: each request gets its response, each sleep
\* expires, and the runtime resumes the call at the top of its loop.  The
\* caller stays free to cancel.
InitLive ==
  /\ config = [api_key |-> <<"k">>, endpoint |-> NoString]
  /\ client = NoClient
  /\ calls = [c \in CallIds |-> NewCall(IF c = 1 THEN "idle" ELSE "unused")]
  /\ now = 0
  /\ sent = 0

Fairness ==
  \A c \in CallIds :
    /\ WF_vars(CreateResponse(c))
    /\ WF_vars(LoopIteration(c))
    /\ WF_vars(PollResponse(c))
    /\ WF_vars(SleepDone(c))

SpecLive == InitLive /\ [][Next]_vars /\ Fairness

\* Two calls on one client, running concurrently.  The inputs are narrowed to
\* keep the interleavings enumerable: both calls are ask with a free-text
\* question, without options or with a timeout of 0 s; a call polls at most
\* twice; requests take no time; the server fails with 503 only and answers
\* with one of two contents.  The clock is charged with a suspension when it
\* ends, so the sleeps of the two calls follow one another on it.
InitConcurrent ==
  /\ config = [api_key |-> <<"k">>, endpoint |-> NoString]
  /\ client = NoClient
  /\ calls = [c \in CallIds |-> NewCall("idle")]
  /\ now = 0
  /\ sent = 0

ConcurrentScope ==
  /\ now' - now \in {0, POLL_INTERVAL_MS}
  /\ \A c \in CallIds :
       LET k == calls'[c] IN
       /\ k.kind \in {"", "ask"}
       /\ k.question.answer_format.tag = "FreeText"
       /\ k.options \in {NoAskOptions, Some([timeout_seconds |-> Some(0)])}
       /\ Len(Gets(k.trace)) <= 2
       /\ \A i \in 1..Len(k.trace) : k.trace[i].status \in {0, 200, 503}
       /\ k.received \in {NoBody, Some(AnswerWithDate(FreeTextContent("hello"))),
                           Some(AnswerWithDate(OptionsContent(<<0>>)))}

NextConcurrent ==
  \/ ConstructNew /\ ConcurrentScope
  \/ ConstructFromKey /\ ConcurrentScope
  \/ \E c \in CallIds : Ask(c) /\ ConcurrentScope
  \/ \E c \in CallIds : CreateResponse(c) /\ ConcurrentScope
  \/ \E c \in CallIds : LoopIteration(c) /\ ConcurrentScope
  \/ \E c \in CallIds : PollResponse(c) /\ ConcurrentScope
  \/ \E c \in CallIds : SleepDone(c) /\ ConcurrentScope
  \/ \E c \in CallIds : Cancel(c) /\ ConcurrentScope

SpecConcurrent == InitConcurrent /\ [][NextConcurrent]_vars

\* =================================================================== claims
HasTimeout(c) == calls[c].options.some /\ calls[c].options.v.timeout_seconds.some
RequestedTimeout(c) == calls[c].options.v.timeout_seconds.v
Started(c) == calls[c].trace # <<>>
CreateSucceeded(c) == Started(c) /\ calls[c].trace[1].resp = "ok"
LastEvent(c) == calls[c].trace[Len(calls[c].trace)]
AllPollsEmpty(c) ==
  \A i \in 1..Len(calls[c].trace) :
    calls[c].trace[i].op = "GET" => calls[c].trace[i].resp = "none"

\* C1: when the create request gets a non-success status, the call has ended
\* with CreateFailed carrying that status' text, and the POST is the only thing
\* the call ever did: no second POST, no GET, no sleep.
C1_CreateFailedNoPoll ==
  \A c \in CallIds :
    (Started(c) /\ calls[c].trace[1].resp = "status") =>
      /\ calls[c].pc = "done"
      /\ calls[c].result = CreateFailed(StatusText(calls[c].trace[1].status))
      /\ Len(calls[c].trace) = 1
      /\ Len(Posts(calls[c].trace)) = 1
      /\ Len(Gets(calls[c].trace)) = 0

C1_Witness ==
  \E c \in CallIds :
    /\ Started(c)
    /\ calls[c].trace[1].resp = "status"
    /\ calls[c].trace[1].status = 404
    /\ calls[c].result.status_text = "404 Not Found"

\* C2: a poll that gets a non-success status is the last thing the call does:
\* the call has ended with PollFailed carrying that status' text, and no GET and
\* no sleep follows it in the trace, whatever is left of the timeout.
C2_PollFailedAborts ==
  \A c \in CallIds :
    \A i \in 1..Len(calls[c].trace) :
      (calls[c].trace[i].op = "GET" /\ calls[c].trace[i].resp = "status") =>
        /\ i = Len(calls[c].trace)
        /\ calls[c].pc = "done"
        /\ calls[c].result = PollFailed(StatusText(calls[c].trace[i].status))

C2_Witness ==
  \E c \in CallIds :
    /\ calls[c].pc = "done"
    /\ calls[c].result.kind = "PollFailed"
    /\ Len(Gets(calls[c].trace)) = 2
    /\ HasTimeout(c)
    /\ now - calls[c].start < RequestedTimeout(c) * MsPerSec

\* C3: when the k-th poll is the one that carries an answer, the call has
\* ended, ask's result is that answer, and after the POST the trace is
\* GET (SLEEP GET)^(k-1): k polls, the first k-1 without an answer, each pair
\* of polls separated by one sleep of 3000 ms, nothing before the first poll
\* and nothing after the last; at least (k-1) * 3000 ms have passed.
C3_KPollsThenAnswered ==
  \A c \in CallIds :
    (Started(c) /\ LastEvent(c).op = "GET" /\ LastEvent(c).resp = "answer") =>
      LET tr == calls[c].trace
          k == Len(Gets(tr))
      IN
      /\ calls[c].pc = "done"
      /\ k >= 1
      /\ Len(tr) = 2 * k
      /\ tr[1].op = "POST"
      /\ \A j \in 1..k : tr[2 * j].op = "GET"
      /\ \A j \in 1..(k - 1) :
           /\ tr[2 * j].resp = "none"
           /\ tr[2 * j + 1].op = "SLEEP"
           /\ tr[2 * j + 1].ms = 3000
      /\ Len(Sleeps(tr)) = k - 1
      /\ now - calls[c].start >= (k - 1) * 3000
      /\ calls[c].kind = "ask" => calls[c].result = OkAnswer(calls[c].received.v)

C3_Witness ==
  \E c \in CallIds :
    /\ calls[c].pc = "done"
    /\ calls[c].result.tag = "Ok"
    /\ Len(Gets(calls[c].trace)) = 3
    /\ Len(Sleeps(calls[c].trace)) = 2
    /\ ~HasTimeout(c)

\* C4: a call with a timeout of N seconds whose create succeeded and whose
\* every poll came back as a success without an answer can only end with
\* Timeout, and the elapsed time it carries is at least N seconds.
C4_TimeoutAfterN ==
  \A c \in CallIds :
    (calls[c].pc = "done" /\ HasTimeout(c) /\ CreateSucceeded(c) /\ AllPollsEmpty(c)) =>
      /\ calls[c].result.tag = "Err"
      /\ calls[c].result.kind = "Timeout"
      /\ calls[c].result.elapsed_ms >= RequestedTimeout(c) * 1000

C4_Witness ==
  \E c \in CallIds :
    /\ calls[c].pc = "done"
    /\ HasTimeout(c)
    /\ RequestedTimeout(c) = MaxTimeout
    /\ AllPollsEmpty(c)
    /\ Len(Gets(calls[c].trace)) = 2
    /\ calls[c].result.kind = "Timeout"

\* C5: a call without a timeout (no options, or options without
\* timeout_seconds) never ends with Timeout, and it never ends after a poll
\* that succeeded without an answer: if it has ended, the create failed or the
\* last poll failed or carried an answer.
C5_NoTimeoutPollsOn ==
  \A c \in CallIds :
    (Started(c) /\ ~HasTimeout(c)) =>
      /\ calls[c].result.kind # "Timeout"
      /\ calls[c].pc = "done" =>
           \/ ~CreateSucceeded(c)
           \/ LastEvent(c).op = "GET" /\ LastEvent(c).resp # "none"

\* The call is still polling after MaxPolls empty polls, later than any timeout
\* of the model would have allowed.
C5_Witness ==
  \E c \in CallIds :
    /\ ~calls[c].options.some
    /\ calls[c].pc = "loop"
    /\ Len(Gets(calls[c].trace)) = MaxPolls
    /\ AllPollsEmpty(c)
    /\ now - calls[c].start > MaxTimeout * MsPerSec

\* The answer ask returned to the wrapper (or to the caller), when it returned one.
Answered(c) == calls[c].pc = "done" /\ calls[c].received.some
Content(c) == calls[c].received.v.answer.answer_content
\* The choices as they were sent in the create request.
SentChoices(c) == calls[c].trace[1].question.answer_format.options

\* C6: ask_multiple_choice, given an Options answer, returns
\* InvalidResponse("No selection received") for an empty selected_indexes;
\* otherwise, with i the first selected index, the choice string at i of the
\* choices sent with the request when i is in range, and
\* InvalidSelectedIndex{index: i} when it is not.
C6_MultipleChoiceResult ==
  \A c \in CallIds :
    (Answered(c) /\ calls[c].kind = "ask_multiple_choice" /\ Content(c).tag = "Options") =>
      LET ix == Content(c).selected_indexes
          choices == SentChoices(c)
      IN
      IF Len(ix) = 0
        THEN calls[c].result = InvalidResponse("No selection received")
        ELSE IF ix[1] < Len(choices)
          THEN /\ calls[c].result.tag = "Ok"
               /\ calls[c].result.text = choices[ix[1] + 1]
          ELSE calls[c].result = InvalidSelectedIndex(ix[1])

C6_Witness ==
  \E c \in CallIds :
    /\ Answered(c)
    /\ calls[c].kind = "ask_multiple_choice"
    /\ SentChoices(c) = <<"yes", "no">>
    /\ Content(c).selected_indexes = <<1, 0>>
    /\ calls[c].result.text = "no"

\* C7: a wrapper that receives an answer of the other tag fails with
\* UnexpectedAnswerType naming the tag it expected: "free_text" for
\* ask_free_text given Options, "options" for ask_multiple_choice given FreeText.
C7_WrappersRejectMismatch ==
  \A c \in CallIds :
    /\ (Answered(c) /\ calls[c].kind = "ask_free_text" /\ Content(c).tag = "Options") =>
          calls[c].result = UnexpectedAnswerType("free_text", DebugFmt(Content(c)))
    /\ (Answered(c) /\ calls[c].kind = "ask_multiple_choice" /\ Content(c).tag = "FreeText") =>
          calls[c].result = UnexpectedAnswerType("options", DebugFmt(Content(c)))

C7_Witness ==
  \E c \in CallIds :
    /\ Answered(c)
    /\ calls[c].kind = "ask_free_text"
    /\ Content(c).tag = "Options"
    /\ Content(c).selected_indexes = <<0>>
    /\ calls[c].result.kind = "UnexpectedAnswerType"

\* C8 as stated: whenever ask_multiple_choice returns successfully, every
\* entry of selected_indexes is a valid index into the choices.
C8_AllIndexesValid ==
  \A c \in CallIds :
    (Answered(c) /\ calls[c].kind = "ask_multiple_choice" /\ calls[c].result.tag = "Ok") =>
      \A i \in 1..Len(Content(c).selected_indexes) :
        Content(c).selected_indexes[i] < Len(SentChoices(c))

\* C8 amended: whenever ask_multiple_choice returns successfully, the answer is
\* an Options answer whose first selected index is a valid index into the
\* choices; the entries after the first are not looked at.
C8_FirstIndexValid ==
  \A c \in CallIds :
    (calls[c].kind = "ask_multiple_choice" /\ calls[c].result.tag = "Ok") =>
      /\ Answered(c)
      /\ Content(c).tag = "Options"
      /\ Len(Content(c).selected_indexes) >= 1
      /\ Content(c).selected_indexes[1] < Len(SentChoices(c))

C8_Witness ==
  \E c \in CallIds :
    /\ Answered(c)
    /\ calls[c].kind = "ask_multiple_choice"
    /\ calls[c].result.tag = "Ok"
    /\ SentChoices(c) = <<"yes", "no">>
    /\ Content(c).selected_indexes = <<0, 2>>

\* C9 as stated: an answer returned as a success has the tag of the answer
\* format of the question that was asked, for ask as for the wrappers.
C9_TagMatchesFormat ==
  \A c \in CallIds :
    (Answered(c) /\ calls[c].result.tag = "Ok") =>
      Content(c).tag = calls[c].question.answer_format.tag

\* C9 amended: an answer returned as a success by ask_free_text or by
\* ask_multiple_choice has the tag of the question's answer format; ask itself
\* returns the answer the server gave as it is, whatever its tag.
C9_WrapperTagMatchesFormat ==
  \A c \in CallIds :
    /\ (calls[c].kind \in {"ask_free_text", "ask_multiple_choice"} /\ calls[c].result.tag = "Ok") =>
          /\ Answered(c)
          /\ Content(c).tag = calls[c].question.answer_format.tag
    /\ (Answered(c) /\ calls[c].kind = "ask") =>
          calls[c].result = OkAnswer(calls[c].received.v)

C9_Witness ==
  \E c \in CallIds :
    /\ Answered(c)
    /\ calls[c].kind = "ask"
    /\ calls[c].question.answer_format.tag = "FreeText"
    /\ Content(c).tag = "Options"
    /\ calls[c].result.tag = "Ok"

\* C10: construction succeeds exactly for a non-empty api key and fails with
\* InvalidResponse("api_key is mandatory") for the empty one, and it hands
\* nothing to the transport: after a failed construction, and after a
\* successful one until a call begins, no request has been sent.
C10_Construction ==
  client.state # "unbuilt" =>
    /\ client.state = "ok" <=> Len(config.api_key) > 0
    /\ client.state = "err" <=> Len(config.api_key) = 0
    /\ client.state = "err" => client.err = InvalidResponse("api_key is mandatory")
    /\ client.state = "ok" => client.api_key = config.api_key /\ client.err = NoResult
    /\ (client.state = "err" \/ \A c \in CallIds : ~Started(c)) => sent = 0

C10_Witness ==
  /\ client.state = "err"
  /\ config.api_key = <<>>
  /\ client.err.kind = "InvalidResponse"
  /\ sent = 0

\* C11: a Timeout is produced no later than N seconds plus one poll round trip
\* plus one sleep of 3000 ms after polling began: the elapsed time it carries
\* never exceeds the timeout by more than that slack.
C11_TimeoutOverrunBounded ==
  \A c \in CallIds :
    calls[c].result.kind = "Timeout" =>
      /\ HasTimeout(c)
      /\ AllPollsEmpty(c)
      /\ calls[c].result.elapsed_ms
           <= RequestedTimeout(c) * 1000 + MaxRttSec * 1000 + 3000

\* The whole slack is used: the check before the last poll passed with the
\* timeout just reached, the poll took the longest round trip, then the sleep.
C11_Witness ==
  \E c \in CallIds :
    /\ calls[c].result.kind = "Timeout"
    /\ RequestedTimeout(c) = MaxTimeout
    /\ calls[c].result.elapsed_ms = MaxTimeout * 1000 + MaxRttSec * 1000 + 3000

\* C12: a call's first request is its one create request; a poll is issued only
\* after that create succeeded, and every poll addresses the confirmation id
\* the server returned in that create response.
C12_OneCreateThenOwnPolls ==
  \A c \in CallIds :
    Started(c) =>
      LET tr == calls[c].trace IN
      /\ tr[1].op = "POST"
      /\ tr[1].url = client.endpoint \o CreatePath
      /\ Len(Posts(tr)) = 1
      /\ \A i \in 1..Len(tr) :
           tr[i].op = "GET" =>
             /\ tr[1].resp = "ok"
             /\ calls[c].created.some
             /\ tr[i].url = client.endpoint \o GetPath \o calls[c].created.v \o ShortPollQuery

C12_Witness ==
  \E c \in CallIds :
    /\ Len(Gets(calls[c].trace)) = 2
    /\ calls[c].created = Some(<<"B">>)
    /\ LastEvent(c).op = "GET"
    /\ LastEvent(c).url = client.endpoint \o GetPath \o <<"B">> \o ShortPollQuery

\* C13: every step a call takes from the top of the loop is decided by the
\* timeout check alone: with a timeout of N seconds and elapsed > N the call
\* ends with Timeout carrying that elapsed time and sends nothing; otherwise
\* (no timeout, or elapsed <= N, equality included) it sends the GET.  A GET
\* is sent by no other step.
C13_StrictCheckBeforeGet ==
  [][\A c \in CallIds :
       /\ (calls[c].pc = "loop" /\ calls'[c] # calls[c]) =>
            LET elapsed == now - calls[c].start IN
            IF HasTimeout(c) /\ elapsed > RequestedTimeout(c) * 1000
              THEN /\ calls'[c].pc = "done"
                   /\ calls'[c].result.kind = "Timeout"
                   /\ calls'[c].result.elapsed_ms = elapsed
                   /\ calls'[c].trace = calls[c].trace
                   /\ sent' = sent
              ELSE /\ calls'[c].pc = "poll_wait"
                   /\ Len(calls'[c].trace) = Len(calls[c].trace) + 1
                   /\ calls'[c].trace[Len(calls'[c].trace)].op = "GET"
                   /\ sent' = sent + 1
       /\ Len(Gets(calls'[c].trace)) > Len(Gets(calls[c].trace)) => calls[c].pc = "loop"
    ]_vars

\* The second poll is in flight, sent with the timeout reached but not exceeded.
C13_Witness ==
  \E c \in CallIds :
    /\ calls[c].pc = "poll_wait"
    /\ HasTimeout(c)
    /\ RequestedTimeout(c) > 0
    /\ now - calls[c].start = RequestedTimeout(c) * 1000
    /\ Len(Gets(calls[c].trace)) = 2

\* C14: the clock of the timeout starts when the create response has arrived:
\* start is that moment, a Timeout carries the time from that moment to the
\* return, without the duration of the create request, and it is never
\* produced before the first poll, however long the create took.
C14_ElapsedFromPollStart ==
  \A c \in CallIds :
    /\ CreateSucceeded(c) => calls[c].start = calls[c].created_at
    /\ calls[c].result.kind = "Timeout" =>
         /\ calls[c].result.elapsed_ms = calls[c].ended_at - calls[c].created_at
         /\ Len(Gets(calls[c].trace)) >= 1

\* The create alone took longer than the timeout, and the call polled.
C14_Witness ==
  \E c \in CallIds :
    /\ calls[c].result.kind = "Timeout"
    /\ calls[c].created_at - calls[c].begun_at > RequestedTimeout(c) * MsPerSec
    /\ calls[c].result.elapsed_ms < calls[c].ended_at - calls[c].begun_at
    /\ Len(Gets(calls[c].trace)) = 1

Terminal(pc) == pc \in {"done", "cancelled"}

\* C16: a call that has returned (with an answer, a Timeout or a failure) or
\* that was cancelled while suspended never changes again, so it issues no
\* further request; the step that ends or cancels it sends nothing; and the
\* only requests a call ever sends are its POST and its GETs: there is no
\* request that withdraws the confirmation.
C16_TerminalIsAbsorbing ==
  [][\A c \in CallIds :
       /\ Terminal(calls[c].pc) => calls'[c] = calls[c]
       /\ (~Terminal(calls[c].pc) /\ Terminal(calls'[c].pc)) =>
            /\ Len(calls'[c].trace) = Len(calls[c].trace)
            /\ sent' = sent
            /\ calls'[c].pc = "done" => calls'[c].result.tag \in {"Ok", "Err"}
            /\ calls'[c].pc = "cancelled" =>
                 /\ calls[c].pc \in {"create_wait", "poll_wait", "sleeping"}
                 /\ calls'[c].result = NoResult
       /\ \A i \in 1..Len(calls'[c].trace) :
            calls'[c].trace[i].op \in {"POST", "GET", "SLEEP"}
    ]_vars

\* A call cancelled in its sleep after one poll, and one cancelled while its
\* create was awaited, would look alike in sent; this is the former.
C16_Witness ==
  \E c \in CallIds :
    /\ calls[c].pc = "cancelled"
    /\ LastEvent(c).op = "SLEEP"
    /\ Len(Gets(calls[c].trace)) = 1
    /\ sent = 2

InFlight(c) == calls[c].pc \in {"create_wait", "loop", "poll_wait", "sleeping"}

\* C17: when every request gets a response and every sleep expires, a call
\* with a timeout does not stay in flight for ever: it returns (an answer, a
\* Timeout or a failure), unless its caller cancels it first.
C17_TimedCallTerminates ==
  \A c \in CallIds :
    [](InFlight(c) /\ HasTimeout(c) => <>(calls[c].pc \in {"done", "cancelled"}))

\* The call went through every poll the model allows without an answer and
\* was ended by its timeout.
C17_Witness ==
  \E c \in CallIds :
    /\ calls[c].pc = "done"
    /\ calls[c].result.kind = "Timeout"
    /\ RequestedTimeout(c) = MaxTimeout
    /\ Len(Gets(calls[c].trace)) >= 2
    /\ AllPollsEmpty(c)

\* C18 as stated: a create response with a success status whose body does not
\* decode makes the call fail with InvalidResponse, not with NetworkError and
\* not with CreateFailed, and no poll is issued.
C18_UndecodableCreateIsInvalidResponse ==
  \A c \in CallIds :
    (Started(c) /\ calls[c].trace[1].resp = "decode") =>
      /\ calls[c].pc = "done"
      /\ calls[c].result.tag = "Err"
      /\ calls[c].result.kind = "InvalidResponse"
      /\ Len(Gets(calls[c].trace)) = 0

\* The endpoint handed to WaitHuman::new, or the default.
GivenEndpoint == IF config.endpoint.some THEN config.endpoint.v ELSE DEFAULT_ENDPOINT
EndsWithSlash(str) == Len(str) > 0 /\ str[Len(str)] = "/"
EndsWithTwoSlashes(str) == Len(str) > 1 /\ str[Len(str)] = "/" /\ str[Len(str) - 1] = "/"
OneSlashOff(str) == IF EndsWithSlash(str) THEN SubSeq(str, 1, Len(str) - 1) ELSE str
\* url is base, then one "/", then something that is not a "/"
NoDoubledSlashAfter(base, url) ==
  /\ Len(url) >= Len(base) + 2
  /\ SubSeq(url, 1, Len(base)) = base
  /\ url[Len(base) + 1] = "/"
  /\ url[Len(base) + 2] # "/"
RequestUrlsClean(base) ==
  /\ ~EndsWithSlash(base)
  /\ \A c \in CallIds : \A i \in 1..Len(calls[c].trace) :
       calls[c].trace[i].op \in {"POST", "GET"} => NoDoubledSlashAfter(base, calls[c].trace[i].url)

\* C19 as stated: the base of a constructed client is the given endpoint with
\* its trailing slash stripped, it never ends with "/", and no request url
\* has a doubled slash after the base.
C19_BaseNeverEndsWithSlash ==
  client.state = "ok" =>
    /\ client.endpoint = OneSlashOff(GivenEndpoint)
    /\ RequestUrlsClean(client.endpoint)

\* C19 amended: the base is the given endpoint with one trailing slash
\* removed; unless the given endpoint ends with two slashes or more, the base
\* does not end with "/" and no request url has a doubled slash after it.
C19_OneTrailingSlashStripped ==
  client.state = "ok" =>
    /\ client.endpoint = OneSlashOff(GivenEndpoint)
    /\ ~EndsWithTwoSlashes(GivenEndpoint) => RequestUrlsClean(client.endpoint)
    /\ EndsWithTwoSlashes(GivenEndpoint) => EndsWithSlash(client.endpoint)

C19_Witness ==
  /\ client.state = "ok"
  /\ config.endpoint = Some(<<"h", "/">>)
  /\ client.endpoint = <<"h">>
  /\ \E c \in CallIds :
       /\ Len(Gets(calls[c].trace)) = 1
       /\ calls[c].trace[1].url = <<"h">> \o CreatePath
       /\ calls[c].trace[2].url = <<"h">> \o GetPath \o <<"A">> \o ShortPollQuery

\* C15: with two calls running concurrently on one client, under every
\* interleaving: a step changes the state of one call at most, so no call's
\* position, locals, requests or result are touched by the other call's
\* steps or outcome; no step of a call changes the client; every poll of a
\* call carries the client's api key and addresses the confirmation id of
\* that call's own create response; and a call's start is the moment its own
\* create response arrived.
C15_CallsIndependent ==
  [][/\ client.state = "ok" => client' = client
     /\ \A c, d \in CallIds :
          (c # d /\ calls'[c] # calls[c]) => calls'[d] = calls[d]
     /\ \A c \in CallIds :
          LET k == calls'[c] IN
          /\ \A i \in 1..Len(k.trace) :
               k.trace[i].op = "GET" =>
                 /\ k.created.some
                 /\ k.trace[i].url = client.endpoint \o GetPath \o k.created.v \o ShortPollQuery
                 /\ k.trace[i].auth = client.api_key
          /\ k.pc \in {"loop", "poll_wait", "sleeping"} =>
               /\ k.start = k.created_at
               /\ k.confirmation_id = k.created.v
    ]_vars

\* Both calls have polled, each its own confirmation; the first has its answer
\* while the second, created later, is still in its loop.
C15_Witness ==
  /\ calls[1].created = Some(<<"A">>)
  /\ calls[2].created = Some(<<"B">>)
  /\ calls[1].created_at < calls[2].created_at
  /\ calls[1].pc = "done"
  /\ calls[1].result.tag = "Ok"
  /\ Len(Gets(calls[1].trace)) = 2
  /\ calls[2].pc = "sleeping"
  /\ Len(Gets(calls[2].trace)) = 1

====
